---- MODULE Spec2Model ----
(***************************************************************************)
(* A model of workspace-manager.py: the tree of SplitPaneWidget panes held *)
(* by MainWindow, the mouse handlers that start a drag on a pane's handle, *)
(* split the pane or open its options, and the saving and loading of the   *)
(* tree as a workspace file.                                               *)
(*                                                                         *)
(* A pane is a record; the panes of a split pane's QSplitter are the       *)
(* sequence `children`, and `sizes` is what that QSplitter reports as its  *)
(* sizes.  A pane is addressed by its path: the child indices from the     *)
(* root pane.  Python's None is the string "None".                         *)
(***************************************************************************)
EXTENDS Integers, Sequences, FiniteSets, TLC

\* ------------------------------------------------------------ configuration

SPLIT_THRESHOLD == 10

split_handle_size == 15

None == "None"

\* The path that names no pane (child indices start at 1).
NoPane == <<0>>

\* ------------------------------------------------------------------ bounds

\* Splitting is disabled once the tree holds this many panes.
MaxPanes == 3

\* A workspace is saved only while the tree holds at most this many panes.
MaxSavedPanes == 1

\* The applications a user types into the launcher dialog.
AppNames == {"xterm"}

\* Width and height of a pane when an event reaches it.
PaneGeoms == {<<40, 36>>}

\* Where the pointer is pressed: inside the handle of such a pane, and outside.
PressPoints == {<<30, 30>>, <<5, 5>>}

\* Where the pointer is on a move or a release, as displacements from the
\* press at <<30, 30>>: within the threshold (5, 5), at the threshold (10, 0),
\* and beyond it along x (11, 3), along y (3, 11), along both (11, 11) and
\* to the left (-11, 10).
EventPoints ==
    {<<35, 35>>, <<40, 30>>, <<41, 33>>, <<33, 41>>, <<41, 41>>, <<19, 40>>}

Buttons == {"Left", "Other"}

\* What subprocess.Popen does for an application name.
LaunchOutcomes == {"Started", "FileNotFoundError", "Exception"}

\* ----------------------------------------------------------------- helpers

Abs(n) == IF n < 0 THEN -n ELSE n

Front(s) == SubSeq(s, 1, Len(s) - 1)

Last(s) == s[Len(s)]

RemoveIndex(s, i) == SubSeq(s, 1, i - 1) \o SubSeq(s, i + 1, Len(s))

\* Python truth of a string or None.
Truthy(s) == s # None /\ s # ""

\* QRect(x, y, w, h).contains(pos)
Contains(rect, pos) ==
    /\ rect[1] <= pos[1] /\ pos[1] <= rect[1] + rect[3] - 1
    /\ rect[2] <= pos[2] /\ pos[2] <= rect[2] + rect[4] - 1

\* QSplitter.setSizes(list) followed by QSplitter.sizes(): the splitter keeps
\* one size per widget and takes a negative size as 0.
QSplitter_setSizes(list) == [i \in DOMAIN list |-> IF list[i] < 0 THEN 0 ELSE list[i]]

\* ------------------------------------------------------------------- panes

\* ContentWidget.update_label
update_label(content_type, app_name) ==
    IF content_type = "app" /\ Truthy(app_name) THEN "Launching" ELSE "Content Pane"

\* SplitPaneWidget(): a pane holding a default ContentWidget.
NewPane ==
    [is_split |-> FALSE, split_orientation |-> None,
     content_type |-> "default", app_name |-> None,
     label |-> update_label("default", None),
     children |-> <<>>, sizes |-> <<>>,
     dragging_handle |-> FALSE, drag_start_pos |-> <<0, 0>>]

RECURSIVE PaneAt(_, _)
PaneAt(pane, path) ==
    IF path = <<>> THEN pane ELSE PaneAt(pane.children[Head(path)], Tail(path))

RECURSIVE ReplaceAt(_, _, _)
ReplaceAt(pane, path, new) ==
    IF path = <<>> THEN new
    ELSE [pane EXCEPT !.children[Head(path)] = ReplaceAt(@, Tail(path), new)]

RECURSIVE PathsOf(_)
PathsOf(pane) ==
    {<<>>} \cup UNION {{<<i>> \o p : p \in PathsOf(pane.children[i])} :
                       i \in DOMAIN pane.children}

RECURSIVE PaneCount(_)
PaneCount(pane) ==
    LET Sum[i \in 0..Len(pane.children)] ==
            IF i = 0 THEN 0 ELSE Sum[i - 1] + PaneCount(pane.children[i])
    IN  1 + Sum[Len(pane.children)]

\* SplitPaneWidget.get_handle_rect, for a pane of width geom[1], height geom[2]
get_handle_rect(geom) ==
    <<geom[1] - split_handle_size, geom[2] - split_handle_size,
      split_handle_size, split_handle_size>>


\* ContentWidget.launch_app: the label after subprocess.Popen ended as `outcome`
launch_app(content_type, app_name, label, outcome) ==
    IF content_type = "app" /\ Truthy(app_name)
    THEN CASE outcome = "Started" -> "Running"
           [] outcome = "FileNotFoundError" -> "Error: not found"
           [] OTHER -> "Error launching"
    ELSE label

\* set_pane_content, were a launch that fails to bring the default content.
MutSetContentRollsBack(self, content_type, app_name, popen) ==
    IF self.is_split THEN self
    ELSE IF content_type = "app" /\ Truthy(app_name) /\ popen[app_name] = "Started"
         THEN [self EXCEPT !.content_type = "app", !.app_name = app_name,
                           !.label = launch_app("app", app_name,
                                                update_label("app", app_name),
                                                popen[app_name])]
         ELSE [self EXCEPT !.content_type = "default", !.app_name = None,
                           !.label = update_label("default", None)]

\* set_pane_content, were it to test the content type only.
MutSetContentKeepsEmptyApp(self, content_type, app_name, popen) ==
    IF self.is_split THEN self
    ELSE IF content_type = "app"
         THEN [self EXCEPT !.content_type = "app", !.app_name = app_name,
                           !.label = IF Truthy(app_name)
                                     THEN launch_app("app", app_name,
                                                     update_label("app", app_name),
                                                     popen[app_name])
                                     ELSE update_label("app", app_name)]
         ELSE [self EXCEPT !.content_type = "default", !.app_name = None,
                           !.label = update_label("default", None)]

\* SplitPaneWidget.set_pane_content; popen[name] is what launching name does.
set_pane_content(self, content_type, app_name, popen) ==
    IF self.is_split THEN self
    ELSE IF content_type = "app" /\ Truthy(app_name)
         THEN [self EXCEPT !.content_type = "app", !.app_name = app_name,
                           !.label = launch_app("app", app_name,
                                                update_label("app", app_name),
                                                popen[app_name])]
         ELSE [self EXCEPT !.content_type = "default", !.app_name = None,
                           !.label = update_label("default", None)]

\* split, were the first new pane to take over the content of the pane split.
MutSplitKeepsContent(self, orientation, geom) ==
    IF self.is_split THEN self
    ELSE LET half == IF orientation = "Horizontal" THEN geom[1] \div 2
                     ELSE geom[2] \div 2
         IN  [self EXCEPT !.split_orientation = orientation,
                          !.content_type = NewPane.content_type,
                          !.app_name = NewPane.app_name,
                          !.label = NewPane.label,
                          !.children = <<[NewPane EXCEPT
                                            !.content_type = self.content_type,
                                            !.app_name = self.app_name,
                                            !.label = self.label],
                                         NewPane>>,
                          !.sizes = QSplitter_setSizes(<<half, half>>),
                          !.is_split = TRUE]

\* split, were it to go on for a pane that is split already.
MutSplitAgain(self, orientation, geom) ==
    LET half == IF orientation = "Horizontal" THEN geom[1] \div 2
                ELSE geom[2] \div 2
    IN  [self EXCEPT !.split_orientation = orientation,
                     !.content_type = NewPane.content_type,
                     !.app_name = NewPane.app_name,
                     !.label = NewPane.label,
                     !.children = <<NewPane, NewPane>>,
                     !.sizes = QSplitter_setSizes(<<half, half>>),
                     !.is_split = TRUE]

\* SplitPaneWidget.split: the content widget is deleted and gives way to a
\* QSplitter of two new panes, each given half of the pane's width (or height).
\* No code reads the content of a split pane; the model leaves it as NewPane's.
split(self, orientation, geom) ==
    IF self.is_split THEN self
    ELSE LET half == IF orientation = "Horizontal" THEN geom[1] \div 2
                     ELSE geom[2] \div 2
         IN  [self EXCEPT !.split_orientation = orientation,
                          !.content_type = NewPane.content_type,
                          !.app_name = NewPane.app_name,
                          !.label = NewPane.label,
                          !.children = <<NewPane, NewPane>>,
                          !.sizes = QSplitter_setSizes(<<half, half>>),
                          !.is_split = TRUE]

\* When a drag ends, dragging_handle becomes False.  drag_start_pos keeps its
\* value in the code, but lines 227, 266 and 307 read it only under
\* dragging_handle and line 253 sets it first: the model returns it to QPoint().
EndDrag(self) == [self EXCEPT !.dragging_handle = FALSE, !.drag_start_pos = <<0, 0>>]

\* mousePressEvent, were it not to grab the mouse.
MutPressWithoutGrab(self, pos, button, geom) ==
    IF ~self.is_split /\ Contains(get_handle_rect(geom), pos)
    THEN IF button = "Left"
         THEN [pane |-> [self EXCEPT !.dragging_handle = TRUE,
                                     !.drag_start_pos = pos],
               grab |-> FALSE]
         ELSE [pane |-> self, grab |-> FALSE]
    ELSE [pane |-> self, grab |-> FALSE]

\* SplitPaneWidget.mousePressEvent: the pane after the event, and whether it
\* grabbed the mouse.
mousePressEvent(self, pos, button, geom) ==
    IF ~self.is_split /\ Contains(get_handle_rect(geom), pos)
    THEN IF button = "Left"
         THEN [pane |-> [self EXCEPT !.dragging_handle = TRUE,
                                     !.drag_start_pos = pos],
               grab |-> TRUE]
         ELSE [pane |-> self, grab |-> FALSE]
    ELSE [pane |-> self, grab |-> FALSE]

\* mouseMoveEvent, were a tie of |dx| and |dy| to split horizontally.
MutMoveOrientationByY(self, pos, geom) ==
    IF self.dragging_handle
    THEN LET dx == pos[1] - self.drag_start_pos[1]
             dy == pos[2] - self.drag_start_pos[2]
         IN  IF ~self.is_split /\ (Abs(dx) > SPLIT_THRESHOLD \/ Abs(dy) > SPLIT_THRESHOLD)
             THEN LET o == IF Abs(dx) >= Abs(dy) THEN "Horizontal" ELSE "Vertical"
                  IN  [pane |-> EndDrag(split(self, o, geom)),
                       emitted |-> "Split", orientation |-> o, release |-> TRUE]
             ELSE [pane |-> self, emitted |-> None, orientation |-> None,
                   release |-> FALSE]
    ELSE [pane |-> self, emitted |-> None, orientation |-> None, release |-> FALSE]

\* mouseMoveEvent, were the distance taken from the last move.
MutMoveFromLastPos(self, pos, geom) ==
    IF self.dragging_handle
    THEN LET dx == pos[1] - self.drag_start_pos[1]
             dy == pos[2] - self.drag_start_pos[2]
         IN  IF ~self.is_split /\ (Abs(dx) > SPLIT_THRESHOLD \/ Abs(dy) > SPLIT_THRESHOLD)
             THEN LET o == IF Abs(dx) > Abs(dy) THEN "Horizontal" ELSE "Vertical"
                  IN  [pane |-> EndDrag(split(self, o, geom)),
                       emitted |-> "Split", orientation |-> o, release |-> TRUE]
             ELSE [pane |-> [self EXCEPT !.drag_start_pos = pos],
                   emitted |-> None, orientation |-> None, release |-> FALSE]
    ELSE [pane |-> self, emitted |-> None, orientation |-> None, release |-> FALSE]

\* mouseMoveEvent, were the drag to go on after the split.
MutMoveKeepsDragging(self, pos, geom) ==
    IF self.dragging_handle
    THEN LET dx == pos[1] - self.drag_start_pos[1]
             dy == pos[2] - self.drag_start_pos[2]
         IN  IF ~self.is_split /\ (Abs(dx) > SPLIT_THRESHOLD \/ Abs(dy) > SPLIT_THRESHOLD)
             THEN LET o == IF Abs(dx) > Abs(dy) THEN "Horizontal" ELSE "Vertical"
                  IN  [pane |-> split(self, o, geom),
                       emitted |-> "Split", orientation |-> o, release |-> FALSE]
             ELSE [pane |-> self, emitted |-> None, orientation |-> None,
                   release |-> FALSE]
    ELSE [pane |-> self, emitted |-> None, orientation |-> None, release |-> FALSE]

\* SplitPaneWidget.mouseMoveEvent: the pane after the event, whether it split
\* (and how) and whether it released the mouse.
mouseMoveEvent(self, pos, geom) ==
    IF self.dragging_handle
    THEN LET dx == pos[1] - self.drag_start_pos[1]
             dy == pos[2] - self.drag_start_pos[2]
         IN  IF ~self.is_split /\ (Abs(dx) > SPLIT_THRESHOLD \/ Abs(dy) > SPLIT_THRESHOLD)
             THEN LET o == IF Abs(dx) > Abs(dy) THEN "Horizontal" ELSE "Vertical"
                  IN  [pane |-> EndDrag(split(self, o, geom)),
                       emitted |-> "Split", orientation |-> o, release |-> TRUE]
             ELSE [pane |-> self, emitted |-> None, orientation |-> None,
                   release |-> FALSE]
    ELSE [pane |-> self, emitted |-> None, orientation |-> None, release |-> FALSE]


\* ---------------------------------------------------------- closing a pane

\* parentWidget() of the pane at `path`: the QSplitter of the pane above it,
\* or MainWindow's central widget for the root pane.
parentWidget(path) == IF path = <<>> THEN "QWidget" ELSE "QSplitter"

\* Whether self.layout() can be called: __init__ (line 187) rebinds
\* self.layout to the pane's QVBoxLayout, which is not callable.
LayoutIsCallable == FALSE

\* close_pane, were the last pane of the QSplitter to go instead.
MutCloseRemovesLast(root, path) ==
    IF parentWidget(path) = "QSplitter"
    THEN LET parent == PaneAt(root, Front(path))
         IN  [root |-> <<ReplaceAt(root, Front(path),
                            [parent EXCEPT !.children = Front(@),
                                           !.sizes = RemoveIndex(@, Last(path))])>>,
              result |-> "Closed"]
    ELSE [root |-> <<root>>, result |-> "TypeError"]

\* close_pane, were the QSplitter to keep the size of the pane it drops.
MutCloseKeepsSize(root, path) ==
    IF parentWidget(path) = "QSplitter"
    THEN LET parent == PaneAt(root, Front(path))
             i == Last(path)
         IN  [root |-> <<ReplaceAt(root, Front(path),
                            [parent EXCEPT !.children = RemoveIndex(@, i)])>>,
              result |-> "Closed"]
    ELSE [root |-> <<root>>, result |-> "TypeError"]

\* SplitPaneWidget.close_pane on the pane at `path` of the tree `root`, once the
\* deleteLater() it asks for has run: the QSplitter drops the pane and its
\* size.  For the root pane the test of line 390 calls self.layout().
close_pane(root, path) ==
    IF parentWidget(path) = "QSplitter"
    THEN LET parent == PaneAt(root, Front(path))
             i == Last(path)
         IN  [root |-> <<ReplaceAt(root, Front(path),
                            [parent EXCEPT !.children = RemoveIndex(@, i),
                                           !.sizes = RemoveIndex(@, i)])>>,
              result |-> "Closed"]
    ELSE IF parentWidget(path) = "QWidget"
         THEN IF LayoutIsCallable
              THEN [root |-> <<root>>, result |-> "CannotCloseRoot"]
              ELSE [root |-> <<root>>, result |-> "TypeError"]
         ELSE [root |-> <<root>>, result |-> "CannotClose"]

\* The most openings of the application launcher within one pane-options dialog.
MaxLauncherTries == 1

\* str.strip for the texts typed into the launcher: the empty text, a blank
\* text, or an application name.
strip(text) == IF text = " " THEN "" ELSE text

\* AppLauncherDialog, opened once: its Ok or Cancel, and get_app_name(), the
\* text typed with the blanks around it stripped.
AppLauncherDialog(accepted, text) == [accepted |-> accepted, app_name |-> strip(text)]

LauncherTexts == {"", " "} \cup AppNames

AppLaunchers == {AppLauncherDialog(accepted, text) : accepted \in BOOLEAN, text \in LauncherTexts}

\* What the user does with one pane-options dialog: the buttons clicked, in
\* order, each "Launch Application" click with what the launcher then gave.
Click(button, launcher) == [button |-> button, launcher |-> launcher]

NoLauncher == [accepted |-> FALSE, app_name |-> ""]

\* on_launch_clicked leaves the dialog open (True) or accepts it with a launch.
StaysOpen(launcher) == ~(launcher.accepted /\ Truthy(launcher.app_name))

OpenLaunchers == {l \in AppLaunchers : StaysOpen(l)}

LastClicks ==
    {Click("Cancel", NoLauncher), Click("Close Pane", NoLauncher)}
    \cup {Click("Launch Application", l) : l \in AppLaunchers \ OpenLaunchers}

RECURSIVE ClicksOf(_)
ClicksOf(n) ==
    IF n = 0
    THEN {<<c>> : c \in LastClicks}
    ELSE ClicksOf(n - 1)
         \cup {<<Click("Launch Application", l)>> \o rest :
                  l \in OpenLaunchers, rest \in {r \in ClicksOf(n - 1) : Len(r) = n}}

\* PaneOptionsDialog.exec_() and get_result() for the clicks made: rejected
\* (Cancel), or accepted with the action chosen.
RECURSIVE PaneOptionsDialog(_)
\* PaneOptionsDialog, were on_launch_clicked to take the launcher's name
\* without asking whether the launcher was accepted.
MutLaunchClickedTakesName(clicks) ==
    LET c == Head(clicks)
    IN  IF c.button = "Launch Application"
        THEN IF Truthy(c.launcher.app_name)
             THEN [accepted |-> TRUE, action |-> "launch", app_name |-> c.launcher.app_name]
             ELSE PaneOptionsDialog(Tail(clicks))
        ELSE IF c.button = "Close Pane"
             THEN [accepted |-> TRUE, action |-> "close", app_name |-> None]
             ELSE [accepted |-> FALSE, action |-> None, app_name |-> None]

PaneOptionsDialog(clicks) ==
    LET c == Head(clicks)
    IN  IF c.button = "Launch Application"
        THEN IF c.launcher.accepted /\ Truthy(c.launcher.app_name)
             THEN [accepted |-> TRUE, action |-> "launch", app_name |-> c.launcher.app_name]
             ELSE PaneOptionsDialog(Tail(clicks))
        ELSE IF c.button = "Close Pane"
             THEN [accepted |-> TRUE, action |-> "close", app_name |-> None]
             ELSE [accepted |-> FALSE, action |-> None, app_name |-> None]

Dialogs == {PaneOptionsDialog(clicks) : clicks \in ClicksOf(MaxLauncherTries)}

\* SplitPaneWidget.open_pane_options for the pane at `path`
open_pane_options(root, path, dialog, popen) ==
    IF dialog.accepted
    THEN IF dialog.action = "launch"
         THEN IF Truthy(dialog.app_name)
              THEN [root |-> <<ReplaceAt(root, path,
                                 set_pane_content(PaneAt(root, path), "app",
                                                  dialog.app_name, popen))>>,
                    result |-> "ContentSet"]
              ELSE [root |-> <<root>>, result |-> None]
         ELSE IF dialog.action = "close"
              THEN close_pane(root, path)
              ELSE [root |-> <<root>>, result |-> None]
    ELSE [root |-> <<root>>, result |-> None]

\* mouseReleaseEvent, were it to end the drag without releasing the mouse.
MutReleaseKeepsGrab(root, path, pos, dialog, popen) ==
    LET self == PaneAt(root, path)
    IN  IF self.dragging_handle
        THEN [root |-> <<ReplaceAt(root, path, EndDrag(self))>>, result |-> None,
              emitted |-> None, release |-> FALSE]
        ELSE [root |-> <<root>>, result |-> None, emitted |-> None, release |-> FALSE]

\* SplitPaneWidget.mouseReleaseEvent for the pane at `path`
mouseReleaseEvent(root, path, pos, dialog, popen) ==
    LET self == PaneAt(root, path)
    IN  IF self.dragging_handle
        THEN LET dropped == ReplaceAt(root, path, EndDrag(self))
                 dx == pos[1] - self.drag_start_pos[1]
                 dy == pos[2] - self.drag_start_pos[2]
             IN  IF ~self.is_split /\ Abs(dx) < SPLIT_THRESHOLD
                                   /\ Abs(dy) < SPLIT_THRESHOLD
                 THEN LET r == open_pane_options(dropped, path, dialog, popen)
                      IN  [root |-> r.root, result |-> r.result,
                           emitted |-> "Activate", release |-> TRUE]
                 ELSE [root |-> <<dropped>>, result |-> None,
                       emitted |-> None, release |-> TRUE]
        ELSE [root |-> <<root>>, result |-> None, emitted |-> None, release |-> FALSE]

\* ------------------------------------------------------ saving and loading

\* SplitPaneWidget.get_state
RECURSIVE get_state(_)
\* get_state, were a split to save one size only.
MutGetStateSizesOfFirst(self) ==
    IF ~self.is_split
    THEN [type |-> "pane",
          content |-> self.content_type,
          app_name |-> IF self.content_type = "app" THEN self.app_name ELSE None]
    ELSE [type |-> "split",
          orientation |-> IF self.split_orientation = "Horizontal"
                          THEN "horizontal" ELSE "vertical",
          sizes |-> SubSeq(self.sizes, 1, 1),
          children |-> [i \in DOMAIN self.children |-> get_state(self.children[i])]]

get_state(self) ==
    IF ~self.is_split
    THEN [type |-> "pane",
          content |-> self.content_type,
          app_name |-> IF self.content_type = "app" THEN self.app_name ELSE None]
    ELSE [type |-> "split",
          orientation |-> IF self.split_orientation = "Horizontal"
                          THEN "horizontal" ELSE "vertical",
          sizes |-> self.sizes,
          children |-> [i \in DOMAIN self.children |-> get_state(self.children[i])]]

\* What create_from_state gives: a pane, None, or an exception (a KeyError).
Created(pane) == [status |-> "ok", pane |-> pane]

ReturnsNone == [status |-> "None", pane |-> NewPane]

Raises == [status |-> "raise", pane |-> NewPane]

\* restore_sizes, were a size of zero or less to bring the equal sizes.
MutRestoreOnlyPositiveSizes(sizes, count) ==
    IF sizes # <<>> /\ Len(sizes) = count /\ \A i \in DOMAIN sizes : sizes[i] > 0
    THEN QSplitter_setSizes(sizes)
    ELSE IF count > 0 THEN QSplitter_setSizes([i \in 1..count |-> 1]) ELSE <<>>

\* The sizes of the QSplitter that create_from_state fills with `count` panes
\* (lines 452 to 459), given the "sizes" of the state ([] when the key is missing).
restore_sizes(sizes, count) ==
    IF sizes # <<>> /\ Len(sizes) = count
    THEN QSplitter_setSizes(sizes)
    ELSE IF count > 0 THEN QSplitter_setSizes([i \in 1..count |-> 1]) ELSE <<>>

\* SplitPaneWidget.create_from_state; a state is a record of the keys it has.
RECURSIVE create_from_state(_, _)
create_from_state(state, popen) ==
    IF "type" \notin DOMAIN state THEN Raises
    ELSE IF state.type = "pane"
    THEN LET content_type == IF "content" \in DOMAIN state THEN state.content
                             ELSE "default"
             app_name == IF "app_name" \in DOMAIN state THEN state.app_name ELSE None
         IN  Created(set_pane_content(NewPane, content_type, app_name, popen))
    ELSE IF state.type = "split"
    THEN IF "orientation" \notin DOMAIN state THEN Raises
         ELSE LET orientation == IF state.orientation = "horizontal"
                                 THEN "Horizontal" ELSE "Vertical"
                  children_states == IF "children" \in DOMAIN state
                                     THEN state.children ELSE <<>>
                  made == [i \in DOMAIN children_states |->
                              create_from_state(children_states[i], popen)]
                  added == SelectSeq(made, LAMBDA r : r.status = "ok")
                  widgets == [i \in DOMAIN added |-> added[i].pane]
                  sizes == IF "sizes" \in DOMAIN state THEN state.sizes ELSE <<>>
              IN  IF \E i \in DOMAIN made : made[i].status = "raise" THEN Raises
                  ELSE Created([NewPane EXCEPT
                           !.is_split = TRUE,
                           !.split_orientation = orientation,
                           !.children = widgets,
                           !.sizes = restore_sizes(sizes, Len(widgets))])
    ELSE ReturnsNone


\* set_pane_content_popens, were an application launched whatever its name.
MutPopensWithoutName(self, content_type, app_name) ==
    IF ~self.is_split /\ content_type = "app" THEN <<app_name>> ELSE <<>>

\* The subprocess.Popen calls set_pane_content makes through launch_app: the
\* names launched, in order.
set_pane_content_popens(self, content_type, app_name) ==
    IF ~self.is_split /\ content_type = "app" /\ Truthy(app_name)
    THEN <<app_name>> ELSE <<>>

\* The Popen calls create_from_state makes for the node at `node` of the file,
\* each with the node it is made for; a KeyError ends them.
RECURSIVE create_from_state_popens(_, _)
RECURSIVE children_popens(_, _, _)
create_from_state_popens(state, node) ==
    IF "type" \notin DOMAIN state THEN <<>>
    ELSE IF state.type = "pane"
    THEN LET content_type == IF "content" \in DOMAIN state THEN state.content
                             ELSE "default"
             app_name == IF "app_name" \in DOMAIN state THEN state.app_name ELSE None
             popens == set_pane_content_popens(NewPane, content_type, app_name)
         IN  [i \in DOMAIN popens |-> [node |-> node, app_name |-> popens[i]]]
    ELSE IF state.type = "split"
    THEN IF "orientation" \notin DOMAIN state THEN <<>>
         ELSE children_popens(IF "children" \in DOMAIN state THEN state.children ELSE <<>>,
                              node, 1)
    ELSE <<>>

\* The loop over children_states, from its i-th round on.
children_popens(children_states, node, i) ==
    IF i > Len(children_states) THEN <<>>
    ELSE create_from_state_popens(children_states[i], Append(node, i))
         \o (IF create_from_state(children_states[i],
                                  [n \in AppNames |-> "Started"]).status = "raise"
             THEN <<>>
             ELSE children_popens(children_states, node, i + 1))


\* Workspace files this program did not write (edited by hand, written by
\* another version, damaged), as json.load reads them.
DefaultPaneState == [type |-> "pane", content |-> "default", app_name |-> None]

AppPaneState == [type |-> "pane", content |-> "app", app_name |-> "xterm"]

BogusState == [type |-> "bogus"]

SplitState(orientation, sizes, children) ==
    [type |-> "split", orientation |-> orientation, sizes |-> sizes,
     children |-> children]

\* Damaged files, for which create_from_state returns None or raises KeyError.
DamagedStates ==
    {BogusState,
     [content |-> "default"],
     SplitState("vertical", <<3, 4>>, <<DefaultPaneState, [content |-> "default"]>>),
     [type |-> "split", sizes |-> <<3, 4>>,
      children |-> <<DefaultPaneState, DefaultPaneState>>]}

\* ------------------------------------------------------------------- state

VARIABLES
    main_layout,     \* MainWindow.main_layout: <<root_pane>>, or <<>> when
                     \* the layout is empty and root_pane is None
    mouse_grabber,   \* the path of the pane that called grabMouse(), or NoPane
    left_down,       \* whether the left mouse button is held
    workspace_file,  \* <<state>> that save_workspace wrote, or <<>>
    running,         \* FALSE once an unhandled exception ended the program
    event            \* the last event handled and what its handler did

vars == <<main_layout, mouse_grabber, left_down, workspace_file, running, event>>

root_pane == main_layout[1]

\* op and path: the handler and the pane it ran on; pos: the pointer; content:
\* the pane's content before; emitted: "DragStarted", "Split" or "Activate";
\* dialog: the action chosen in the pane options; result: how it ended.
Event(op, path, pos, content, emitted, orientation, dialog, result) ==
    [op |-> op, path |-> path, pos |-> pos, content |-> content,
     emitted |-> emitted, orientation |-> orientation, dialog |-> dialog,
     result |-> result]

\* An event whose handler changed nothing and opened nothing.
Ignored == Event("ignored", NoPane, <<0, 0>>, None, None, None, None, None)

\* MainWindow.__init__
Init ==
    /\ main_layout = <<NewPane>>
    /\ mouse_grabber = NoPane
    /\ left_down = FALSE
    /\ workspace_file = <<>>
    /\ running = TRUE
    /\ event = Event("init", NoPane, <<0, 0>>, None, None, None, None, None)

\* A mouse event reaches the pane that grabbed the mouse, or else the pane
\* under the pointer.
Targets ==
    IF main_layout = <<>> THEN {}
    ELSE IF mouse_grabber # NoPane THEN {mouse_grabber}
    ELSE PathsOf(root_pane)

Delivered(path) ==
    /\ running
    /\ main_layout # <<>>
    /\ mouse_grabber # NoPane => path = mouse_grabber

\* A mouse button is pressed over the pane at `path`.
MousePress(path, pos, button, geom) ==
    /\ Delivered(path)
    /\ button = "Left" => ~left_down
    /\ LET r == mousePressEvent(PaneAt(root_pane, path), pos, button, geom)
       IN  /\ main_layout' = <<ReplaceAt(root_pane, path, r.pane)>>
           /\ mouse_grabber' = IF r.grab THEN path ELSE mouse_grabber
           /\ event' = IF r.grab
                       THEN Event("press", path, pos, r.pane.content_type, "DragStarted", None, None, None)
                       ELSE Ignored
    /\ left_down' = (left_down \/ button = "Left")
    /\ UNCHANGED <<workspace_file, running>>

\* The pointer moves; the pane at `path` gets the event.
MouseMove(path, pos, geom) ==
    /\ Delivered(path)
    /\ LET self == PaneAt(root_pane, path)
           r == mouseMoveEvent(self, pos, geom)
       IN  /\ r.emitted = "Split" => PaneCount(root_pane) + 2 <= MaxPanes
           /\ main_layout' = <<ReplaceAt(root_pane, path, r.pane)>>
           /\ mouse_grabber' = IF r.release THEN NoPane ELSE mouse_grabber
           /\ event' = IF self.dragging_handle
                       THEN Event("move", path, pos, self.content_type, r.emitted, r.orientation, None, None)
                       ELSE Ignored
    /\ UNCHANGED <<left_down, workspace_file, running>>

\* A mouse button is released; the pane at `path` gets the event, and in the
\* options dialog it may open the user makes `clicks`.  The event keeps the
\* clicks of a dialog ended by Cancel, and of another the click that ended it.
\* A TypeError that leaves the handler ends the program (PyQt5 from 5.5) or
\* is only printed (before).
MouseRelease(path, pos, button, clicks, popen, survives) ==
    /\ Delivered(path)
    /\ button = "Left" => left_down
    /\ LET self == PaneAt(root_pane, path)
           dialog == PaneOptionsDialog(clicks)
           r == mouseReleaseEvent(root_pane, path, pos, dialog, popen)
       IN  /\ main_layout' = r.root
           /\ mouse_grabber' = IF r.release THEN NoPane ELSE mouse_grabber
           /\ running' = IF r.result = "TypeError" THEN survives ELSE running
           /\ event' = IF self.dragging_handle
                       THEN ("clicks" :> IF r.emitted # "Activate" THEN <<>>
                                         ELSE IF Last(clicks).button = "Cancel" THEN clicks
                                         ELSE <<Last(clicks)>>)
                            @@ Event("release", path, pos, self.content_type, r.emitted,
                                     None,
                                     IF r.emitted = "Activate" THEN dialog.action ELSE None,
                                     r.result)
                       ELSE Ignored
    /\ left_down' = (left_down /\ button # "Left")
    /\ UNCHANGED workspace_file

\* ------------------------------------------------------------ file names

\* A string is the sequence of its characters.  The letters and digits are
\* those the names here are written with; the other characters of a name are
\* the space, the tab, and '.', '_', '!' and '/'.
Letters ==
    {"M", "y", "W", "o", "r", "k", "s", "p", "a", "c", "e",
     "u", "n", "t", "i", "l", "d", "w", "j"}

Digits == {"7"}

Whitespace == {" ", "\t"}

\* str.isalnum
isalnum(c) == c \in Letters \cup Digits

\* str.rstrip
RECURSIVE rstrip(_)
rstrip(str) ==
    IF str # <<>> /\ Last(str) \in Whitespace THEN rstrip(Front(str)) ELSE str

\* str.replace for single characters
replace(str, old, new) == [i \in DOMAIN str |-> IF str[i] = old THEN new ELSE str[i]]

\* MainWindow.workspace_path, one path component as a whole
workspace_path == <<"workspaces">>

\* os.path.join(dir, name)
os_path_join(dir, name) ==
    IF name # <<>> /\ Head(name) = "/" THEN name ELSE dir \o <<"/">> \o name

untitled_workspace ==
    <<"u", "n", "t", "i", "t", "l", "e", "d", "_",
      "w", "o", "r", "k", "s", "p", "a", "c", "e">>

dot_json == <<".", "j", "s", "o", "n">>

\* get_workspace_file_path, were it not to strip the end of the name.
MutPathKeepsTrailingSpaces(workspace_name) ==
    LET kept == SelectSeq(workspace_name,
                          LAMBDA c : isalnum(c) \/ c \in {" ", ".", "_"})
        safe_name == replace(kept, " ", "_")
    IN  os_path_join(workspace_path,
                     (IF safe_name = <<>> THEN untitled_workspace ELSE safe_name)
                         \o dot_json)

\* get_workspace_file_path, were it to keep the '/' of a name.
MutPathKeepsSeparators(workspace_name) ==
    LET kept == SelectSeq(workspace_name,
                          LAMBDA c : isalnum(c) \/ c \in {" ", ".", "_", "/"})
        safe_name == replace(rstrip(kept), " ", "_")
    IN  os_path_join(workspace_path,
                     (IF safe_name = <<>> THEN untitled_workspace ELSE safe_name)
                         \o dot_json)

\* MainWindow.get_workspace_file_path
get_workspace_file_path(workspace_name) ==
    LET kept == SelectSeq(workspace_name,
                          LAMBDA c : isalnum(c) \/ c \in {" ", ".", "_"})
        safe_name == replace(rstrip(kept), " ", "_")
    IN  os_path_join(workspace_path,
                     (IF safe_name = <<>> THEN untitled_workspace ELSE safe_name)
                         \o dot_json)

\* The event of a save: Event, with the name entered and the path of the file;
\* save_workspace and get_state launch nothing.
SaveEvent(workspace_name, file_path, result) ==
    ("workspace_name" :> workspace_name) @@ ("file_path" :> file_path)
        @@ ("launched" :> <<>>)
        @@ Event("save", NoPane, <<0, 0>>, None, None, None, None, result)

\* MainWindow.save_workspace: the user enters `workspace_name` and accepts the
\* dialog (`ok`) or cancels it; `written` is whether the file could be written.
SaveWorkspace(workspace_name, ok, written) ==
    /\ running
    /\ ~left_down
    /\ main_layout # <<>> => PaneCount(root_pane) <= MaxSavedPanes
    /\ IF ~(ok /\ workspace_name # <<>>)
       THEN /\ event' = SaveEvent(<<>>, <<>>, "Cancelled")
            /\ UNCHANGED workspace_file
       ELSE LET file_path == get_workspace_file_path(workspace_name)
            IN  IF main_layout = <<>> \/ ~written
                THEN /\ event' = SaveEvent(workspace_name, file_path, "Error")
                     /\ UNCHANGED workspace_file
                ELSE /\ workspace_file' = <<get_state(root_pane)>>
                     /\ event' = SaveEvent(workspace_name, file_path, "Saved")
    /\ UNCHANGED <<main_layout, mouse_grabber, left_down, running>>

\* MainWindow.load_workspace on a file that is gone
LoadMissing ==
    /\ running
    /\ ~left_down
    /\ event' = Event("load", NoPane, <<0, 0>>, None, None, None, None, "NotFound")
    /\ UNCHANGED <<main_layout, mouse_grabber, left_down, workspace_file, running>>

\* MainWindow.load_workspace on a file that is not JSON
LoadInvalidJSON ==
    /\ running
    /\ ~left_down
    /\ event' = Event("load", NoPane, <<0, 0>>, None, None, None, None, "InvalidJSON")
    /\ UNCHANGED <<main_layout, mouse_grabber, left_down, workspace_file, running>>

\* MainWindow.load_workspace on a file holding `state_data`
load_workspace(state_data, popen) ==
    LET made == create_from_state(state_data, popen)
    IN  IF made.status = "ok"
        THEN [layout |-> <<made.pane>>, result |-> "Loaded"]
        ELSE [layout |-> <<>>, result |-> "Error"]

LoadWorkspace(state_data, popen) ==
    /\ running
    /\ ~left_down
    /\ LET r == load_workspace(state_data, popen)
       IN  /\ main_layout' = r.layout
           /\ event' = ("launched" :> create_from_state_popens(state_data, <<>>))
                       @@ Event("load", NoPane, <<0, 0>>, None, None, None, None,
                                r.result)
    /\ UNCHANGED <<mouse_grabber, left_down, workspace_file, running>>

Popens == [AppNames -> LaunchOutcomes]

\* What the user enters as the name of a workspace: nothing, or a name.
SavedNames == {<<>>, <<"W", "s">>}

\* Whether loading `state` may launch an application.
RECURSIVE LaunchesApp(_)
LaunchesApp(state) ==
    \/ "app_name" \in DOMAIN state /\ Truthy(state.app_name)
    \/ "children" \in DOMAIN state
        /\ \E i \in DOMAIN state.children : LaunchesApp(state.children[i])

\* The inputs a handler does not read are fixed: the dialog and the launch
\* happen only when the release opens the pane options, and the exception only
\* when the root pane is closed.
NoDialog == [accepted |-> FALSE, action |-> None, app_name |-> None]

\* The clicks of a dialog that is never opened.
NoClicks == <<Click("Cancel", NoLauncher)>>

Dragging(path) == PaneAt(root_pane, path).dragging_handle

\* Whether a release at `pos` over the pane at `path` opens its options.
Activates(path, pos) ==
    mouseReleaseEvent(root_pane, path, pos, NoDialog,
                      [n \in AppNames |-> "Started"]).emitted = "Activate"

Next ==
    \/ \E path \in Targets, pos \in PressPoints, button \in Buttons, geom \in PaneGeoms :
          MousePress(path, pos, button, geom)
    \/ \E path \in Targets, geom \in PaneGeoms :
          \E pos \in IF Dragging(path) THEN EventPoints ELSE {<<35, 35>>} :
             MouseMove(path, pos, geom)
    \/ \E path \in Targets, button \in Buttons :
          \E pos \in IF Dragging(path) THEN EventPoints ELSE {<<35, 35>>} :
             \E clicks \in IF Activates(path, pos) THEN ClicksOf(MaxLauncherTries)
                             ELSE {NoClicks} :
                \E popen \in IF PaneOptionsDialog(clicks).action = "launch" THEN Popens
                              ELSE {[n \in AppNames |-> "Started"]} :
                   \E survives \in IF PaneOptionsDialog(clicks).action = "close" /\ path = <<>>
                                   THEN BOOLEAN ELSE {TRUE} :
                      MouseRelease(path, pos, button, clicks, popen, survives)
    \/ \E workspace_name \in SavedNames, ok \in BOOLEAN, written \in BOOLEAN :
          SaveWorkspace(workspace_name, ok, written)
    \/ LoadMissing
    \/ LoadInvalidJSON
    \/ \E state_data \in DamagedStates \cup {workspace_file[i] : i \in DOMAIN workspace_file} :
          \E popen \in IF LaunchesApp(state_data) THEN Popens
                        ELSE {[n \in AppNames |-> "Started"]} :
             LoadWorkspace(state_data, popen)

Spec == Init /\ [][Next]_vars


\* -------------------------------------------- loading files of any content

\* The JSON object of the given keys: each pair is <<key, <<value>>>>, or
\* <<key, <<>>>> for a key the object lacks.
RECURSIVE Object(_)
Object(pairs) ==
    IF pairs = <<>> THEN <<>>
    ELSE IF Len(Head(pairs)[2]) = 0 THEN Object(Tail(pairs))
    ELSE (Head(pairs)[1] :> Head(pairs)[2][1]) @@ Object(Tail(pairs))

PersistedChildren ==
    {DefaultPaneState, AppPaneState,
     [type |-> "pane", content |-> "app", app_name |-> None],
     BogusState,
     [content |-> "default"],
     SplitState("horizontal", <<3, 4>>, <<AppPaneState, DefaultPaneState>>),
     SplitState("horizontal", <<0, 4>>, <<AppPaneState, BogusState>>)}

PersistedSizes ==
    {<<>>, <<<<>>>>, <<<<5>>>>, <<<<3, 4>>>>, <<<<0, 5>>>>, <<<<-2, 7>>>>,
     <<<<2, 2, 2>>>>}

\* Up to MaxChildren children in a persisted split.
MaxChildren == 2

PersistedChildLists ==
    {<<>>} \cup
    {<<c>> : c \in UNION {[1..n -> PersistedChildren] : n \in 0..MaxChildren}}

PersistedStates ==
    {BogusState, [content |-> "default"], [type |-> "pane"],
     DefaultPaneState, AppPaneState,
     [type |-> "pane", content |-> "app", app_name |-> None],
     [type |-> "pane", content |-> "app", app_name |-> ""]}
    \cup {Object(<< <<"type", <<"split">> >>, <<"orientation", o>>,
                    <<"sizes", sz>>, <<"children", ch>> >>) :
            o \in {<<"horizontal">>, <<"vertical">>, <<"diagonal">>, <<>>},
            sz \in PersistedSizes, ch \in PersistedChildLists}

\* A workspace directory holding one file of any of these contents.
InitLoad ==
    /\ main_layout = <<NewPane>>
    /\ mouse_grabber = NoPane
    /\ left_down = FALSE
    /\ workspace_file \in {<<d>> : d \in PersistedStates}
    /\ running = TRUE
    /\ event = Event("init", NoPane, <<0, 0>>, None, None, None, None, None)

NextLoad ==
    \/ \E popen \in IF LaunchesApp(workspace_file[1]) THEN Popens
                    ELSE {[n \in AppNames |-> "Started"]} :
          LoadWorkspace(workspace_file[1], popen)
    \/ \E workspace_name \in SavedNames, ok \in BOOLEAN, written \in BOOLEAN :
          SaveWorkspace(workspace_name, ok, written)
    \/ LoadMissing
    \/ LoadInvalidJSON

SpecLoad == InitLoad /\ [][NextLoad]_vars


\* ---------------------------------------- the methods called on any pane

\* split, set_pane_content and close_pane are public methods of
\* SplitPaneWidget: here they are called on any pane of the tree, split or
\* not, with any arguments, as code using the class may; no drag is under way.

\* The tree is split only while it holds at most MaxCallPanes panes after.
MaxCallPanes == 4

Orientations == {"Horizontal", "Vertical"}

\* Arguments of set_pane_content: the content type, and the application name
\* (None, empty, or a name).
ContentTypes == {"default", "app"}

AppNameArgs == {None, ""} \cup AppNames

\* The event of a method call: Event, with the arguments of the call.
CallEvent(op, path, content, args, result) ==
    ("args" :> args) @@ Event(op, path, <<0, 0>>, content, None, None, None, result)

\* pane.split(orientation) for the pane at `path`
CallSplit(path, orientation, geom) ==
    /\ running
    /\ main_layout # <<>>
    /\ LET self == PaneAt(root_pane, path)
       IN  /\ ~self.is_split => PaneCount(root_pane) + 2 <= MaxCallPanes
           /\ main_layout' = <<ReplaceAt(root_pane, path, split(self, orientation, geom))>>
           /\ event' = CallEvent("split", path, self.content_type,
                                 <<orientation>>, None)
    /\ UNCHANGED <<mouse_grabber, left_down, workspace_file, running>>

\* pane.set_pane_content(content_type, app_name) for the pane at `path`
CallSetPaneContent(path, content_type, app_name, popen) ==
    /\ running
    /\ main_layout # <<>>
    /\ LET self == PaneAt(root_pane, path)
       IN  /\ main_layout' = <<ReplaceAt(root_pane, path,
                                 set_pane_content(self, content_type, app_name, popen))>>
           /\ event' = CallEvent("set_pane_content", path, self.content_type,
                                 <<content_type, app_name,
                                   IF Truthy(app_name) THEN popen[app_name] ELSE None>>,
                                 None)
    /\ UNCHANGED <<mouse_grabber, left_down, workspace_file, running>>

\* pane.close_pane() for the pane at `path`
CallClosePane(path, survives) ==
    /\ running
    /\ main_layout # <<>>
    /\ LET self == PaneAt(root_pane, path)
           r == close_pane(root_pane, path)
       IN  /\ main_layout' = r.root
           /\ running' = IF r.result = "TypeError" THEN survives ELSE running
           /\ event' = CallEvent("close_pane", path, self.content_type, <<>>, r.result)
    /\ UNCHANGED <<mouse_grabber, left_down, workspace_file>>

\* Workspace files not written by this window, among them panes that name no
\* application and splits whose sizes do not fit.
ForeignStates ==
    {AppPaneState,
     [type |-> "pane", content |-> "app", app_name |-> None],
     [type |-> "pane", content |-> "app", app_name |-> ""],
     [type |-> "pane", content |-> "app"],
     SplitState("horizontal", <<3, 4, 5>>, <<AppPaneState, DefaultPaneState>>),
     SplitState("vertical", <<7>>, <<BogusState, DefaultPaneState, BogusState>>),
     SplitState("vertical", <<7, 7>>, <<>>),
     [type |-> "split", orientation |-> "horizontal",
      children |-> <<[type |-> "pane", content |-> "app", app_name |-> ""]>>]}

NextMutator ==
    \/ \E path \in Targets, orientation \in Orientations, geom \in PaneGeoms :
          CallSplit(path, orientation, geom)
    \/ \E path \in Targets, content_type \in ContentTypes, app_name \in AppNameArgs :
          \E popen \in IF content_type = "app" /\ Truthy(app_name)
                          /\ ~PaneAt(root_pane, path).is_split
                       THEN Popens ELSE {[n \in AppNames |-> "Started"]} :
             CallSetPaneContent(path, content_type, app_name, popen)
    \/ \E path \in Targets :
          \E survives \in IF path = <<>> THEN BOOLEAN ELSE {TRUE} :
             CallClosePane(path, survives)
    \/ \E state_data \in ForeignStates :
          \E popen \in IF LaunchesApp(state_data) THEN Popens
                        ELSE {[n \in AppNames |-> "Started"]} :
             LoadWorkspace(state_data, popen)

SpecMutator == Init /\ [][NextMutator]_vars


\* ---------------------------------------------- saving under any name

\* Names of up to MaxNameLen characters.
MaxNameLen == 3

NameChars == {"a", "7", " ", "\t", ".", "_", "!", "/"}

MyWorkspace == <<"M", "y", " ", "W", "o", "r", "k", "s", "p", "a", "c", "e", "!">>

WorkspaceNames ==
    UNION {[1..n -> NameChars] : n \in 0..MaxNameLen} \cup {MyWorkspace}

\* The Save Workspace dialog of line 541 is open, a name typed into it.
InitNames ==
    /\ main_layout = <<NewPane>>
    /\ mouse_grabber = NoPane
    /\ left_down = FALSE
    /\ workspace_file = <<>>
    /\ running = TRUE
    /\ event \in {SaveEvent(n, <<>>, "Entering") : n \in WorkspaceNames}

\* The dialog is accepted or cancelled, and save_workspace goes on.
NextNames ==
    \E ok \in BOOLEAN, written \in BOOLEAN :
        /\ event.result = "Entering"
        /\ SaveWorkspace(event.workspace_name, ok, written)

SpecNames == InitNames /\ [][NextNames]_vars

\* ------------------------------------------------------------- properties

\* What the spec's PaneTree keeps of a pane: Leaf or Split, a leaf's content
\* kind and application name, a split's orientation, weights and children.
RECURSIVE Structure(_)
Structure(pane) ==
    IF pane.is_split
    THEN [kind |-> "Split", orientation |-> pane.split_orientation,
          weights |-> pane.sizes,
          children |-> [i \in DOMAIN pane.children |-> Structure(pane.children[i])]]
    ELSE [kind |-> "Leaf", content |-> pane.content_type, name |-> pane.app_name]

RECURSIVE SplitsOf(_)
SplitsOf(pane) ==
    IF pane.is_split
    THEN {pane} \cup UNION {SplitsOf(pane.children[i]) : i \in DOMAIN pane.children}
    ELSE {}

RECURSIVE LeavesOf(_)
LeavesOf(pane) ==
    IF pane.is_split
    THEN UNION {LeavesOf(pane.children[i]) : i \in DOMAIN pane.children}
    ELSE {pane}

\* C1: round trip.  Whatever tree the window holds, and however the launches
\* go, create_from_state(get_state(root_pane)) succeeds and gives a tree of the
\* same structure: shape, child order, leaf contents and names, split
\* orientations and weights.
RoundTrip ==
    main_layout # <<>> =>
        \A popen \in Popens :
            LET made == create_from_state(get_state(root_pane), popen)
            IN  /\ made.status = "ok"
                /\ Structure(made.pane) = Structure(root_pane)

\* A tree got by a split and a set_pane_content, which round-trips.
RoundTripWitness ==
    /\ main_layout # <<>>
    /\ root_pane.is_split
    /\ Len(root_pane.children) = 2
    /\ root_pane.children[1].content_type = "app"
    /\ root_pane.children[2].content_type = "default"
    /\ Structure(create_from_state(get_state(root_pane),
                                   [n \in AppNames |-> "Started"]).pane)
       = Structure(root_pane)

\* C2: collapse invariant.  Every split pane of the tree has at least two
\* children.
CollapseInvariant ==
    main_layout # <<>> =>
        \A sp \in SplitsOf(root_pane) : Len(sp.children) >= 2

\* C3: a failed load is atomic.  A load that did not succeed leaves the window
\* with the root pane and the tree it had.
FailedLoadKeepsTree ==
    [][(event'.op = "load" /\ event'.result # "Loaded")
          => (main_layout' = main_layout /\ main_layout' # <<>>)]_vars

\* C4: root protection.  Choosing Close Pane on the root pane ends as
\* CannotCloseRoot and leaves the tree as it was.
RootCloseRefused ==
    [][(event'.op = "release" /\ event'.dialog = "close" /\ event'.path = <<>>)
          => /\ event'.result = "CannotCloseRoot"
             /\ Structure(main_layout'[1]) = Structure(root_pane)]_vars


\* The file that the last load read.
loaded_file == workspace_file[1]

\* The last event is a load that went as far as create_from_state.
Deserialized == event.op = "load" /\ event.result \in {"Loaded", "Error"}

\* A persisted node no pane can be made of: no type, or a type that is neither
\* "pane" nor "split".
Malformed(state) == "type" \notin DOMAIN state \/ state.type \notin {"pane", "split"}

ChildrenOf(state) ==
    IF "type" \in DOMAIN state /\ state.type = "split" /\ "children" \in DOMAIN state
    THEN state.children ELSE <<>>

RECURSIVE HasMalformedChild(_)
HasMalformedChild(state) ==
    \E i \in DOMAIN ChildrenOf(state) :
        Malformed(ChildrenOf(state)[i]) \/ HasMalformedChild(ChildrenOf(state)[i])

\* C5: malformed child propagation.  Deserializing a split with a malformed
\* child at any depth fails as a whole.
MalformedChildFailsLoad ==
    (Deserialized /\ HasMalformedChild(loaded_file)) => event.result = "Error"

\* The children of a persisted split of which create_from_state makes panes.
KeptChildren(state) == SelectSeq(ChildrenOf(state), LAMBDA c : ~Malformed(c))

SizesOf(state) == IF "sizes" \in DOMAIN state THEN state.sizes ELSE <<>>

Ones(n) == [i \in 1..n |-> 1]

\* The weights of a split of n children read from `state`: as the code sets
\* them, and as C6 states them.
WeightsRestored(state, n) ==
    IF SizesOf(state) # <<>> /\ Len(SizesOf(state)) = n
    THEN [i \in 1..n |-> IF SizesOf(state)[i] < 0 THEN 0 ELSE SizesOf(state)[i]]
    ELSE Ones(n)

WeightsClaimed(state, n) ==
    IF Len(SizesOf(state)) = n /\ \A i \in 1..n : SizesOf(state)[i] > 0
    THEN SizesOf(state)
    ELSE Ones(n)

RECURSIVE WeightsMatch(_, _, _)
WeightsMatch(state, pane, claimed) ==
    state.type = "split" =>
        LET kept == KeptChildren(state)
            n == Len(pane.children)
        IN  /\ pane.is_split
            /\ n = Len(kept)
            /\ pane.sizes = IF claimed THEN WeightsClaimed(state, n)
                            ELSE WeightsRestored(state, n)
            /\ \A i \in 1..n : WeightsMatch(kept[i], pane.children[i], claimed)

\* A persisted tree that create_from_state cannot build whatever its sizes
\* are: it lacks a type or an orientation somewhere, or its root is malformed.
RECURSIVE LacksKey(_)
LacksKey(state) ==
    \/ "type" \notin DOMAIN state
    \/ /\ state.type = "split"
       /\ \/ "orientation" \notin DOMAIN state
          \/ \E i \in DOMAIN ChildrenOf(state) : LacksKey(ChildrenOf(state)[i])

LoadedSplitsHaveTwoChildren ==
    (Deserialized /\ event.result = "Loaded")
        => \A sp \in SplitsOf(root_pane) : Len(sp.children) >= 2

\* C8: click detection.  A release that reaches a dragging pane with the
\* pointer no further than the threshold from the press position along x and
\* y (no move to there would have split the pane) opens the pane options, ends
\* the drag and releases the mouse.
ReleaseActivates ==
    [][event'.op = "release" =>
          LET self == PaneAt(root_pane, event'.path)
              dx == event'.pos[1] - self.drag_start_pos[1]
              dy == event'.pos[2] - self.drag_start_pos[2]
          IN  (Abs(dx) <= SPLIT_THRESHOLD /\ Abs(dy) <= SPLIT_THRESHOLD)
                  => /\ event'.emitted = "Activate"
                     /\ mouse_grabber' = NoPane
                     /\ main_layout' # <<>> =>
                            \A l \in LeavesOf(main_layout'[1]) : ~l.dragging_handle]_vars

\* C9: split detection.  A move that reaches a dragging pane splits it if and
\* only if the pointer is more than the threshold from the press position
\* along x or y: horizontally if |dx| > |dy| and vertically otherwise, ending
\* the drag and releasing the mouse in the same step.  A nearer move changes
\* nothing and the drag goes on.
SplitDetection ==
    [][event'.op = "move" =>
          LET p == event'.path
              self == PaneAt(root_pane, p)
              after == PaneAt(main_layout'[1], p)
              dx == event'.pos[1] - self.drag_start_pos[1]
              dy == event'.pos[2] - self.drag_start_pos[2]
          IN  /\ self.dragging_handle
              /\ ~self.is_split
              /\ IF Abs(dx) > SPLIT_THRESHOLD \/ Abs(dy) > SPLIT_THRESHOLD
                 THEN /\ event'.emitted = "Split"
                      /\ after.is_split
                      /\ after.split_orientation =
                             IF Abs(dx) > Abs(dy) THEN "Horizontal" ELSE "Vertical"
                      /\ event'.orientation = after.split_orientation
                      /\ ~after.dragging_handle
                      /\ mouse_grabber' = NoPane
                 ELSE /\ event'.emitted = None
                      /\ main_layout' = main_layout
                      /\ mouse_grabber' = p]_vars

\* A drag of (11, 11), a tie, has split the pane vertically.
SplitDetectionWitness ==
    /\ event.op = "move"
    /\ event.emitted = "Split"
    /\ event.pos = <<41, 41>>
    /\ PaneAt(root_pane, event.path).split_orientation = "Vertical"
    /\ mouse_grabber = NoPane

\* C10: split result.  A split replaces the leaf, whatever its content, by a
\* split of the orientation asked for with exactly two children, both new
\* leaves with default content, and two equal weights.
SplitResult ==
    [][event'.emitted = "Split" =>
          LET self == PaneAt(root_pane, event'.path)
              after == PaneAt(main_layout'[1], event'.path)
          IN  /\ ~self.is_split
              /\ after.is_split
              /\ after.split_orientation = event'.orientation
              /\ Len(after.children) = 2
              /\ \A i \in 1..2 :
                    Structure(after.children[i])
                        = [kind |-> "Leaf", content |-> "default", name |-> None]
              /\ Len(after.sizes) = 2
              /\ after.sizes[1] = after.sizes[2]]_vars

\* A leaf showing an application has been split.
SplitResultWitness ==
    /\ event.emitted = "Split"
    /\ event.content = "app"
    /\ event.orientation = "Horizontal"
    /\ Len(PaneAt(root_pane, event.path).children) = 2
    /\ PaneAt(root_pane, event.path).children[1].content_type = "default"


\* C11: all-or-nothing mutator failures.  split called on a pane that is
\* split already, and set_pane_content called on a split pane, leave the whole
\* tree as it was: shape, contents, orientations, sizes, and the labels that
\* a launch would change.
MutatorFailuresChangeNothing ==
    [][(/\ event'.op \in {"split", "set_pane_content"}
        /\ PaneAt(root_pane, event'.path).is_split)
          => main_layout' = main_layout]_vars

\* set_pane_content was called for an application on a split pane of two
\* children, and split for the other orientation on a split pane.
MutatorFailuresWitness ==
    /\ main_layout # <<>>
    /\ \/ /\ event.op = "set_pane_content"
          /\ event.args[1] = "app"
          /\ event.args[2] = "xterm"
       \/ /\ event.op = "split"
          /\ event.args[1] # PaneAt(root_pane, event.path).split_orientation
    /\ PaneAt(root_pane, event.path).is_split
    /\ Len(PaneAt(root_pane, event.path).children) = 2


\* C12: at least one visible region.  The tree of the window holds at least
\* one pane that is not split.
AtLeastOneLeaf ==
    main_layout # <<>> => LeavesOf(root_pane) # {}


\* The file name that C13 gives for a name: of the characters that are
\* alphanumeric, a space, '.' or '_', those up to the last that is no space,
\* each space among them turned into '_'; untitled_workspace if there is
\* none; then .json.
DerivedFileName(workspace_name) ==
    LET kept == SelectSeq(workspace_name,
                          LAMBDA c : c \in Letters \cup Digits \cup {" ", ".", "_"})
        ends == {i \in DOMAIN kept : kept[i] # " "}
        n == IF ends = {} THEN 0 ELSE CHOOSE i \in ends : \A j \in ends : j <= i
        base == [i \in 1..n |-> IF kept[i] = " " THEN "_" ELSE kept[i]]
    IN  (IF n = 0 THEN untitled_workspace ELSE base) \o dot_json

\* C13: filename derivation.  Whatever name the user enters, the workspace is
\* written to the file of the derived name in the workspace directory; 'My
\* Workspace!' gives My_Workspace.json and a name of blanks gives
\* untitled_workspace.json.
FilenameDerivation ==
    (event.op = "save" /\ event.result \in {"Saved", "Error"}) =>
        /\ event.file_path
             = workspace_path \o <<"/">> \o DerivedFileName(event.workspace_name)
        /\ event.workspace_name = MyWorkspace =>
              event.file_path = workspace_path \o <<"/">>
                  \o <<"M", "y", "_", "W", "o", "r", "k", "s", "p", "a", "c", "e">>
                  \o dot_json
        /\ (\A i \in DOMAIN event.workspace_name : event.workspace_name[i] = " ") =>
              event.file_path = workspace_path \o <<"/">> \o untitled_workspace \o dot_json

\* A workspace was saved as ' a ': a leading space kept as '_', the trailing
\* one dropped.
FilenameDerivationWitness ==
    /\ event.op = "save"
    /\ event.result = "Saved"
    /\ event.workspace_name = <<" ", "a", " ">>
    /\ event.file_path = workspace_path \o <<"/", "_", "a">> \o dot_json


\* C14: content invariant.  Every pane that is not split and shows an
\* application has a non-empty application name, whatever set_pane_content
\* was called with and whatever file was loaded.
AppHasName ==
    main_layout # <<>> =>
        \A l \in LeavesOf(root_pane) : l.content_type = "app" => Truthy(l.app_name)

\* set_pane_content("app", "") was called on a pane that showed an
\* application: the pane shows the default content.
AppHasNameWitness ==
    /\ main_layout # <<>>
    /\ event.op = "set_pane_content"
    /\ event.args[1] = "app"
    /\ event.args[2] = ""
    /\ event.content = "app"
    /\ ~PaneAt(root_pane, event.path).is_split
    /\ PaneAt(root_pane, event.path).content_type = "default"


\* In a saved state, every split has as many sizes as children.
RECURSIVE SavedSizesFit(_)
SavedSizesFit(state) ==
    state.type = "split" =>
        /\ Len(state.sizes) = Len(state.children)
        /\ \A i \in DOMAIN state.children : SavedSizesFit(state.children[i])

\* C15: weights invariant.  Every split pane has as many sizes as children,
\* and so has every split of the state that get_state gives for the tree.
WeightsInvariant ==
    main_layout # <<>> =>
        /\ \A sp \in SplitsOf(root_pane) : Len(sp.sizes) = Len(sp.children)
        /\ SavedSizesFit(get_state(root_pane))

\* A file of three sizes for two panes was loaded, and one of the panes closed.
WeightsInvariantWitness ==
    /\ main_layout # <<>>
    /\ event.op = "close_pane"
    /\ event.result = "Closed"
    /\ root_pane.is_split
    /\ root_pane.sizes = <<1>>
    /\ Len(root_pane.children) = 1
    /\ get_state(root_pane).sizes = <<1>>


\* No pane of the layout is dragging.
NoDrag(layout) ==
    layout # <<>> =>
        \A q \in PathsOf(layout[1]) : ~PaneAt(layout[1], q).dragging_handle

\* C16: one-shot gesture.  A split or an Activate comes only from a pane that
\* is dragging and leaves no pane dragging; and while the left button stays
\* down with no pane dragging, no pane starts to drag.  So from the press on a
\* handle to the release of the button there is at most one outcome.
OneShotGesture ==
    [][/\ event'.emitted \in {"Split", "Activate"} =>
              /\ PaneAt(root_pane, event'.path).dragging_handle
              /\ NoDrag(main_layout')
       /\ (left_down /\ left_down' /\ NoDrag(main_layout)) => NoDrag(main_layout')
       /\ (left_down /\ left_down' /\ NoDrag(main_layout)) =>
              event'.emitted \notin {"Split", "Activate"}]_vars

\* A pane has just split, the left button still down: the drag is over.
OneShotGestureWitness ==
    /\ event.op = "move"
    /\ event.emitted = "Split"
    /\ left_down
    /\ NoDrag(main_layout)
    /\ mouse_grabber = NoPane
    /\ PaneAt(root_pane, event.path).is_split


\* Up to MaxMoves move events between a press and the release.
MaxMoves == 2

\* Where those moves go, from a press at <<30, 30>>: within the threshold,
\* beyond it along x, and beyond it along y; and where the button is released:
\* within the threshold and beyond it.
MovePoints == {<<35, 35>>, <<41, 33>>, <<33, 41>>}

ReleasePoints == {<<35, 35>>, <<41, 41>>}

MoveSeqs == UNION {[1..n -> MovePoints] : n \in 0..MaxMoves}

\* The events of `moves` at the indices in I, in order: a coarser sampling.
Sampled(moves, I) ==
    LET idx == SelectSeq([i \in DOMAIN moves |-> i], LAMBDA i : i \in I)
    IN  [k \in DOMAIN idx |-> moves[idx[k]]]

\* What a drag comes to for the dragging pane `self`: the handlers run on the
\* move events in turn and then on the release (the pane options cancelled).
RECURSIVE GestureOutcome(_, _, _, _)
GestureOutcome(self, moves, release, geom) ==
    IF moves = <<>>
    THEN [emitted |-> mouseReleaseEvent(self, <<>>, release, NoDialog,
                                        [n \in AppNames |-> "Started"]).emitted,
          orientation |-> None]
    ELSE LET r == mouseMoveEvent(self, Head(moves), geom)
         IN  IF r.emitted = "Split"
             THEN [emitted |-> "Split", orientation |-> r.orientation]
             ELSE GestureOutcome(r.pane, Tail(moves), release, geom)

\* The pointer at pos is beyond the threshold from where `self` was pressed.
Beyond(self, pos) ==
    \/ Abs(pos[1] - self.drag_start_pos[1]) > SPLIT_THRESHOLD
    \/ Abs(pos[2] - self.drag_start_pos[2]) > SPLIT_THRESHOLD

\* The sampling I keeps the first move of `moves` beyond the threshold.
KeepsFirstCrossing(self, moves, I) ==
    \A k \in DOMAIN moves :
        (Beyond(self, moves[k]) /\ \A j \in 1..(k - 1) : ~Beyond(self, moves[j]))
            => k \in I

\* C17 as first stated: polling-rate independence.  After a press on a
\* handle, a drag and any coarser sampling of its moves, with the same
\* release, come to the same outcome.
PollingIndependence ==
    event.op = "press" =>
        \A moves \in MoveSeqs, release \in ReleasePoints, geom \in PaneGeoms :
            \A I \in SUBSET DOMAIN moves :
                GestureOutcome(PaneAt(root_pane, event.path), moves, release, geom)
                  = GestureOutcome(PaneAt(root_pane, event.path),
                                   Sampled(moves, I), release, geom)

\* C17, amended: a drag and a coarser sampling of its moves that keeps the
\* first move beyond the threshold (if there is one), with the same release,
\* come to the same outcome.
PollingIndependenceFromCrossing ==
    event.op = "press" =>
        \A moves \in MoveSeqs, release \in ReleasePoints, geom \in PaneGeoms :
            \A I \in SUBSET DOMAIN moves :
                KeepsFirstCrossing(PaneAt(root_pane, event.path), moves, I) =>
                    GestureOutcome(PaneAt(root_pane, event.path), moves, release, geom)
                      = GestureOutcome(PaneAt(root_pane, event.path),
                                       Sampled(moves, I), release, geom)

\* A handle was pressed, and a drag by (5, 5) and then (3, 11) splits the
\* pane vertically, as does the drag that only samples the second move.
PollingIndependenceWitness ==
    /\ event.op = "press"
    /\ event.pos = <<30, 30>>
    /\ KeepsFirstCrossing(PaneAt(root_pane, event.path),
                          <<<<35, 35>>, <<33, 41>>>>, {2})
    /\ GestureOutcome(PaneAt(root_pane, event.path), <<<<35, 35>>, <<33, 41>>>>,
                      <<41, 41>>, <<40, 36>>)
         = [emitted |-> "Split", orientation |-> "Vertical"]
    /\ GestureOutcome(PaneAt(root_pane, event.path), <<<<33, 41>>>>,
                      <<41, 41>>, <<40, 36>>)
         = [emitted |-> "Split", orientation |-> "Vertical"]

\* C18: exclusive capture.  The pane that starts to drag grabs the mouse and
\* keeps it until its split or the release.  While it has the mouse it is the
\* one pane dragging, every mouse event that acts is its own, the pane split
\* or activated is this pane, and no other pane changes: but for the pane
\* itself the tree stays as it is, or, when the pane is closed from its
\* options, loses just this pane.
ExclusiveCapture ==
    [][/\ main_layout' # <<>> =>
              \A q \in PathsOf(main_layout'[1]) :
                  PaneAt(main_layout'[1], q).dragging_handle => mouse_grabber' = q
       /\ event'.emitted = "DragStarted" =>
              PaneAt(main_layout'[1], event'.path).dragging_handle
       /\ mouse_grabber # NoPane =>
              /\ PaneAt(root_pane, mouse_grabber).dragging_handle
              /\ ~PaneAt(root_pane, mouse_grabber).is_split
              /\ \A q \in PathsOf(root_pane) \ {mouse_grabber} :
                    ~PaneAt(root_pane, q).dragging_handle
              /\ event'.op \in {"ignored", "move", "release"}
              /\ event'.op # "ignored" => event'.path = mouse_grabber
              /\ mouse_grabber' \in {mouse_grabber, NoPane}
              /\ mouse_grabber' = NoPane =>
                    (event'.emitted = "Split" \/ event'.op = "release")
              /\ mouse_grabber' = mouse_grabber =>
                    (event'.emitted = None /\ main_layout' = main_layout)
              /\ IF event'.result = "Closed"
                 THEN LET above == Front(mouse_grabber)
                      IN  /\ ReplaceAt(main_layout'[1], above, NewPane)
                               = ReplaceAt(root_pane, above, NewPane)
                          /\ PaneAt(main_layout'[1], above).children
                               = RemoveIndex(PaneAt(root_pane, above).children,
                                             Last(mouse_grabber))
                 ELSE ReplaceAt(main_layout'[1], mouse_grabber, NewPane)
                        = ReplaceAt(root_pane, mouse_grabber, NewPane)]_vars

\* A pane beside another has the mouse, and a move to a point outside it (its
\* width is 40) has reached it and left it dragging.
ExclusiveCaptureWitness ==
    /\ event.op = "move"
    /\ event.pos = <<40, 30>>
    /\ event.path # <<>>
    /\ mouse_grabber = event.path
    /\ PaneAt(root_pane, mouse_grabber).dragging_handle
    /\ Len(root_pane.children) = 2


\* C19: close effect and frame.  close_pane that succeeds on a pane that is
\* not split takes just that pane and its size out of the split pane above:
\* the panes beside it keep their order, sizes and subtrees, the pane above
\* keeps its orientation, and all the tree outside the pane above is as it was.
CloseFrame ==
    [][(/\ event'.op = "close_pane"
        /\ event'.result = "Closed"
        /\ ~PaneAt(root_pane, event'.path).is_split)
          => LET above == Front(event'.path)
                 i == Last(event'.path)
                 old == PaneAt(root_pane, above)
                 new == PaneAt(main_layout'[1], above)
             IN  /\ event'.path # <<>>
                 /\ new.children = RemoveIndex(old.children, i)
                 /\ new.sizes = RemoveIndex(old.sizes, i)
                 /\ new = [old EXCEPT !.children = RemoveIndex(@, i),
                                      !.sizes = RemoveIndex(@, i)]
                 /\ ReplaceAt(main_layout'[1], above, NewPane)
                      = ReplaceAt(root_pane, above, NewPane)]_vars

\* The first pane of a split pane inside the root, showing an application, was
\* closed; the pane beside it, which shows one too, is there.
CloseFrameWitness ==
    /\ main_layout # <<>>
    /\ event.op = "close_pane"
    /\ event.result = "Closed"
    /\ event.content = "app"
    /\ event.path = <<1, 1>>
    /\ Len(root_pane.children[1].children) = 1
    /\ root_pane.children[1].children[1].content_type = "app"


\* C20: a launch failure does not roll back.  set_pane_content for an
\* application of a non-empty name, on a pane that is not split, leaves the
\* pane showing that application whether the launch starts, fails as not
\* found or fails otherwise; only the label tells them apart, and nothing
\* else of the pane or of the tree changes.
LaunchFailureKeepsContent ==
    [][(/\ event'.op = "set_pane_content"
        /\ event'.args[1] = "app"
        /\ Truthy(event'.args[2])
        /\ ~PaneAt(root_pane, event'.path).is_split)
          => LET old == PaneAt(root_pane, event'.path)
                 new == PaneAt(main_layout'[1], event'.path)
             IN  /\ new.content_type = "app"
                 /\ new.app_name = event'.args[2]
                 /\ new.label = CASE event'.args[3] = "Started" -> "Running"
                                  [] event'.args[3] = "FileNotFoundError"
                                        -> "Error: not found"
                                  [] OTHER -> "Error launching"
                 /\ new = [old EXCEPT !.content_type = "app",
                                      !.app_name = event'.args[2],
                                      !.label = new.label]
                 /\ ReplaceAt(main_layout'[1], event'.path, NewPane)
                      = ReplaceAt(root_pane, event'.path, NewPane)]_vars

\* The application set on the second pane of the root was not found: the pane
\* shows it with the label of the error, beside a pane whose application runs.
LaunchFailureWitness ==
    /\ main_layout # <<>>
    /\ event.op = "set_pane_content"
    /\ event.args = <<"app", "xterm", "FileNotFoundError">>
    /\ event.path = <<2>>
    /\ root_pane.children[2].content_type = "app"
    /\ root_pane.children[2].app_name = "xterm"
    /\ root_pane.children[2].label = "Error: not found"
    /\ root_pane.children[1].label = "Running"


\* The clicks of a cancelled dialog: Cancel at the end and, before it, only
\* openings of the launcher that were cancelled or accepted without a name.
Cancels(clicks) ==
    /\ clicks # <<>>
    /\ Last(clicks).button = "Cancel"
    /\ \A i \in 1..(Len(clicks) - 1) :
          /\ clicks[i].button = "Launch Application"
          /\ ~clicks[i].launcher.accepted \/ clicks[i].launcher.app_name = ""

\* C21: cancelling the dialog does nothing.  When a release activates a pane
\* and the pane-options dialog is dismissed with Cancel, also after the
\* launcher was opened from it and cancelled or accepted with an empty name,
\* the tree is the tree before with the drag ended: no pane is added, removed
\* or changed, and no label shows a launch.
DialogCancelNoOp ==
    [][(/\ event'.op = "release"
        /\ event'.emitted = "Activate"
        /\ Cancels(event'.clicks))
          => /\ main_layout' = <<ReplaceAt(root_pane, event'.path,
                                           EndDrag(PaneAt(root_pane, event'.path)))>>
             /\ event'.dialog = None
             /\ event'.result = None
             /\ running' = running]_vars

\* An application pane beside another was activated, the launcher opened and
\* accepted with an empty name, and the dialog then cancelled.
DialogCancelWitness ==
    /\ main_layout # <<>>
    /\ event.op = "release"
    /\ event.emitted = "Activate"
    /\ Len(event.clicks) = 2
    /\ Cancels(event.clicks)
    /\ event.clicks[1].launcher = [accepted |-> TRUE, app_name |-> ""]
    /\ root_pane.is_split
    /\ PaneAt(root_pane, event.path).content_type = "app"
    /\ PaneAt(root_pane, event.path).label = "Running"


\* The panes of the layout that are dragging.
DraggingPanes(layout) ==
    IF layout = <<>> THEN {}
    ELSE {q \in PathsOf(layout[1]) : PaneAt(layout[1], q).dragging_handle}

\* C22: the state of the gesture.  After every event, a pane that is dragging
\* is not split, the pane that has grabbed the mouse is exactly the pane that
\* is dragging, at most one pane is dragging, and when the event was a button
\* release that reached a dragging pane, no pane is dragging any more.
GestureState ==
    /\ \A q \in DraggingPanes(main_layout) : ~PaneAt(root_pane, q).is_split
    /\ \A q \in DraggingPanes(main_layout) : mouse_grabber = q
    /\ mouse_grabber # NoPane => mouse_grabber \in DraggingPanes(main_layout)
    /\ Cardinality(DraggingPanes(main_layout)) <= 1
    /\ event.op = "release" => DraggingPanes(main_layout) = {} /\ mouse_grabber = NoPane

\* The button was released beyond the threshold over a dragging pane beside
\* another: nothing is emitted and no pane is dragging.
GestureStateWitness ==
    /\ main_layout # <<>>
    /\ event.op = "release"
    /\ event.emitted = None
    /\ event.path # <<>>
    /\ DraggingPanes(main_layout) = {}
    /\ mouse_grabber = NoPane


\* The nodes of a persisted tree, as paths, and the node at a path.
RECURSIVE NodesOf(_)
NodesOf(state) ==
    {<<>>} \cup UNION {{<<i>> \o q : q \in NodesOf(ChildrenOf(state)[i])} :
                          i \in DOMAIN ChildrenOf(state)}

RECURSIVE NodeAt(_, _)
NodeAt(state, node) ==
    IF node = <<>> THEN state ELSE NodeAt(ChildrenOf(state)[Head(node)], Tail(node))

\* A persisted leaf with application content and a non-empty name.
IsAppLeaf(state) ==
    /\ "type" \in DOMAIN state /\ state.type = "pane"
    /\ "content" \in DOMAIN state /\ state.content = "app"
    /\ "app_name" \in DOMAIN state /\ state.app_name \notin {None, ""}

AppPanes(layout) ==
    IF layout = <<>> THEN {}
    ELSE {q \in PathsOf(layout[1]) : PaneAt(layout[1], q).content_type = "app"}

\* C23: what saving and loading launch.  A save leaves the tree as it is and
\* launches nothing.  A load that succeeds launches once for each leaf of the
\* file that has application content and a non-empty name, with that name,
\* and launches nothing for any other node of the file; the panes showing an
\* application afterwards are as many as the launches.
PersistenceLaunches ==
    [][/\ event'.op = "save" => (main_layout' = main_layout /\ event'.launched = <<>>)
       /\ (event'.op = "load" /\ event'.result = "Loaded") =>
              LET launched == event'.launched
              IN  /\ \A node \in NodesOf(loaded_file) :
                        Cardinality({i \in DOMAIN launched : launched[i].node = node})
                          = IF IsAppLeaf(NodeAt(loaded_file, node)) THEN 1 ELSE 0
                  /\ \A i \in DOMAIN launched :
                        /\ launched[i].node \in NodesOf(loaded_file)
                        /\ launched[i].app_name
                             = NodeAt(loaded_file, launched[i].node).app_name
                  /\ Cardinality(AppPanes(main_layout')) = Len(launched)]_vars

\* A file was loaded whose root splits into an application and a split of an
\* application and a default pane: two launches, for the two applications.
PersistenceLaunchesWitness ==
    /\ event.op = "load"
    /\ event.result = "Loaded"
    /\ Len(ChildrenOf(loaded_file)) = 2
    /\ [i \in DOMAIN event.launched |-> event.launched[i].node] = << <<1>>, <<2, 1>> >>
    /\ ~IsAppLeaf(NodeAt(loaded_file, <<2, 2>>))
    /\ Cardinality(AppPanes(main_layout)) = 2


\* C24: filename confinement.  Whatever name the user enters, the file of a
\* save lies directly in the workspace directory: its path is the directory,
\* a separator and a file name that is more than '.json', ends in '.json' and
\* is made of alphanumeric characters, '.' and '_' only; and the path derived
\* from that file name without its '.json' is the same path again.
FilenameConfinement ==
    (event.op = "save" /\ event.result \in {"Saved", "Error"}) =>
        LET file_path == event.file_path
            at == Len(workspace_path) + 1
        IN  /\ Len(file_path) > at + Len(dot_json)
            /\ SubSeq(file_path, 1, at) = workspace_path \o <<"/">>
            /\ SubSeq(file_path, Len(file_path) - Len(dot_json) + 1, Len(file_path))
                 = dot_json
            /\ \A i \in (at + 1)..Len(file_path) :
                  file_path[i] \in Letters \cup Digits \cup {".", "_"}
            /\ get_workspace_file_path(
                   SubSeq(file_path, at + 1, Len(file_path) - Len(dot_json)))
                 = file_path

\* A workspace was saved as '../': the file is '...json' in the workspace
\* directory.
FilenameConfinementWitness ==
    /\ event.op = "save"
    /\ event.result = "Saved"
    /\ event.workspace_name = <<".", ".", "/">>
    /\ event.file_path = workspace_path \o <<"/", ".", ".">> \o dot_json

====
